---- MODULE Spec2Model ----
(***************************************************************************)
(* Model of server/utils/middleware/chatSetparSSO.js: the Chat Setpar SSO  *)
(* middleware.  A request walks through chatSetparSSO one awaited store    *)
(* call at a time; two requests may interleave at every await.  Strings    *)
(* are sequences of one-character strings so that lower-casing, character *)
(* stripping, splitting and truncation are computed, not assumed.          *)
(***************************************************************************)
EXTENDS Naturals, Sequences, FiniteSets, TLC

(* ------------------------------------------------------------------ *)
(* Strings                                                             *)
(* ------------------------------------------------------------------ *)

UpperAlpha ==
  <<"A","B","C","D","E","F","G","H","I","J","K","L","M",
    "N","O","P","Q","R","S","T","U","V","W","X","Y","Z">>

LowerAlpha ==
  <<"a","b","c","d","e","f","g","h","i","j","k","l","m",
    "n","o","p","q","r","s","t","u","v","w","x","y","z">>

Digits == {"0","1","2","3","4","5","6","7","8","9"}

Range(s) == {s[i] : i \in DOMAIN s}

\* String.prototype.toLowerCase, one character
LowerChar(c) ==
  IF \E i \in DOMAIN UpperAlpha : UpperAlpha[i] = c
    THEN LowerAlpha[CHOOSE i \in DOMAIN UpperAlpha : UpperAlpha[i] = c]
    ELSE c

\* String.prototype.toLowerCase
ToLowerCase(s) == [i \in DOMAIN s |-> LowerChar(s[i])]

\* s.replace(/[^...]/g, ""): keep only the characters of the class
RECURSIVE KeepOnly(_, _)
KeepOnly(s, class) ==
  IF s = << >> THEN << >>
  ELSE IF Head(s) \in class
    THEN <<Head(s)>> \o KeepOnly(Tail(s), class)
    ELSE KeepOnly(Tail(s), class)

\* s.substring(0, n)
Substring0(s, n) == IF Len(s) <= n THEN s ELSE SubSeq(s, 1, n)

\* s.split("@")[0]: the text before the first "@" (all of s when it has none)
RECURSIVE BeforeAt(_)
BeforeAt(s) ==
  IF s = << >> THEN << >>
  ELSE IF Head(s) = "@" THEN << >>
  ELSE <<Head(s)>> \o BeforeAt(Tail(s))

\* the substring(0, 32) of lines 18, 27 and 32
MaxUsernameLen == 32

\* the literal "setpar_" of lines 27 and 32
SetparPrefix == <<"s","e","t","p","a","r","_">>

\* the class [a-z0-9] of line 24
PrimaryClass == Range(LowerAlpha) \cup Digits

\* the class [a-z0-9._@-] of line 17
LegacyClass == Range(LowerAlpha) \cup Digits \cup {".", "_", "@", "-"}

\* no username: null in the source
NoName == <<"null">>

legacyUsernameFromEmail(email) ==
  Substring0(KeepOnly(ToLowerCase(BeforeAt(email)), LegacyClass), MaxUsernameLen)

\* usernameFromPayload without the substring(0, 32) of lines 27 and 32
usernameFromPayload_Untruncated(payload) ==
  LET stableExternalId == KeepOnly(ToLowerCase(payload.userId), PrimaryClass)
      fallbackFromEmail == legacyUsernameFromEmail(payload.email)
  IN  IF stableExternalId # << >> THEN SetparPrefix \o stableExternalId
      ELSE IF fallbackFromEmail = << >> THEN NoName
      ELSE SetparPrefix \o fallbackFromEmail

usernameFromPayload(payload) ==
  LET stableExternalId == KeepOnly(ToLowerCase(payload.userId), PrimaryClass)
      fallbackFromEmail == legacyUsernameFromEmail(payload.email)
  IN  IF stableExternalId # << >>
        THEN Substring0(SetparPrefix \o stableExternalId, MaxUsernameLen)
      ELSE IF fallbackFromEmail = << >> THEN NoName
      ELSE Substring0(SetparPrefix \o fallbackFromEmail, MaxUsernameLen)

\* mapSetparRoleToAnything without the owner flag of line 38
mapSetparRoleToAnything_IgnoresOwner(payload) ==
  LET isSetparSuperAdmin ==
        \/ payload.isSuperAdmin = TRUE
        \/ payload.role = "superadmin"
  IN  IF isSetparSuperAdmin THEN "manager" ELSE "default"

mapSetparRoleToAnything(payload) ==
  LET isSetparSuperAdmin ==
        \/ payload.isSuperAdmin = TRUE
        \/ payload.isOwner = TRUE
        \/ payload.role = "superadmin"
  IN  IF isSetparSuperAdmin THEN "manager" ELSE "default"

(* ------------------------------------------------------------------ *)
(* Inputs                                                              *)
(* ------------------------------------------------------------------ *)

\* most requests the model lets the server receive, over all callers
MaxRequests == 2

Procs == {"r1", "r2"}

Undefined == <<"undefined">>

\* values of the two CHAT_SETPAR_*_MULTI_USER variables
EnvValues == {Undefined, <<"1">>, <<" ","O","f","f">>}

Trim(s) == KeepOnly(s, Range(s) \ {" "})

isTruthyEnv(value) ==
  IF value = Undefined THEN FALSE
  ELSE LET normalized == ToLowerCase(Trim(value))
       IN  normalized \notin {<< >>, <<"0">>, <<"f","a","l","s","e">>,
                              <<"n","o">>, <<"o","f","f">>}

Payload(userId, email, isSuperAdmin, isOwner, role) ==
  [userId |-> userId, email |-> email, isSuperAdmin |-> isSuperAdmin,
   isOwner |-> isOwner, role |-> role]

EmailBob == <<"B","o","b","@","x",".","c","o","m">>
EmailBobSmith == <<"B","o","b",".","S","m","i","t","h","@","x",".","c","o","m">>
EmailNoLocal == <<"@","x",".","c","o","m">>
EmailSetparU1 == <<"s","e","t","p","a","r","_","u","1","@","x",".","c","o","m">>
LongId == <<"A","b","c","d","e","f","g","h","i","j","k","l","m","n","o","p","q",
            "r","s","t","u","v","w","x","y","z","0","1","2","3">>
EmailLong == <<"Z","-">> \o LongId \o <<"@","x",".","c","o","m">>

\* decoded claims of the tokens the model presents
Payloads ==
  { Payload(<<"U","1">>, EmailBob, FALSE, FALSE, "user"),
    Payload(<<"U","1">>, EmailBob, FALSE, TRUE, "user"),
    Payload(<<"U","-","2">>, EmailBob, FALSE, FALSE, "superadmin"),
    Payload(<<"_","-">>, EmailBobSmith, FALSE, FALSE, "user"),
    Payload(<< >>, EmailBobSmith, TRUE, FALSE, "user"),
    Payload(<<"U","1">>, << >>, FALSE, FALSE, "user"),
    Payload(<<"_">>, EmailNoLocal, FALSE, FALSE, "user"),
    Payload(<<"U","1">>, EmailSetparU1, FALSE, FALSE, "user"),
    Payload(LongId, EmailBob, TRUE, FALSE, "user"),
    Payload(<<"_">>, EmailLong, FALSE, FALSE, "SuperAdmin") }

NoPayload == Payload(<< >>, << >>, FALSE, FALSE, "none")

\* req.query.sso_token: absent, or a token JWT.verify accepts or rejects
NoToken == [verify |-> "absent", payload |-> NoPayload]

Tokens ==
  {[verify |-> "ok", payload |-> p] : p \in Payloads}
    \cup {[verify |-> e, payload |-> NoPayload] :
            e \in {"TokenExpiredError", "JsonWebTokenError", "NotBeforeError"}}

\* req.path
Paths == {"/sso/simple", "/workspace/a"}

(* ------------------------------------------------------------------ *)
(* The stores                                                          *)
(* ------------------------------------------------------------------ *)

NullUser == [id |-> 0, role |-> "null"]

UserRow(username, role, password) ==
  [username |-> username, role |-> role, password |-> password]

NameBob == <<"b","o","b">>
NameSetparBob == SetparPrefix \o NameBob
NameSetparU1 == SetparPrefix \o <<"u","1">>

\* user stores the server may hold when the first request arrives
InitialUsers ==
  { << >>,
    <<UserRow(NameBob, "default", "pw_a")>>,
    <<UserRow(NameSetparBob, "default", "pw_a")>>,
    <<UserRow(NameBob, "default", "pw_a"), UserRow(NameSetparU1, "admin", "pw_b")>> }

Holders(us, username) == {i \in DOMAIN us : us[i].username = username}

\* User.get({ username }): the row as the caller sees it, or null
UserGet(us, username) ==
  IF Holders(us, username) = {} THEN NullUser
  ELSE LET i == CHOOSE i \in Holders(us, username) :
                  \A j \in Holders(us, username) : i <= j
       IN  [id |-> i, role |-> us[i].role]

\* User._update(id, { username }) as the store decides it: unique usernames
RenameAllowed(us, id, username) == Holders(us, username) \subseteq {id}

\* User.create({ username, ... }) as the store decides it: unique usernames
CreateAllowed(us, username) == Holders(us, username) = {}

(* ------------------------------------------------------------------ *)
(* State                                                               *)
(* ------------------------------------------------------------------ *)

VARIABLES
  env,       \* process.env: CHAT_SETPAR_JWT_SECRET set?, the two switches
  settings,  \* SystemSettings: multi_user_mode, onboarding_complete
  users,     \* the user store: row i has id i
  tokens,    \* TemporaryAuthToken rows: token k is bound to user id tokens[k]
  started,   \* requests received so far
  rq         \* per caller: where its chatSetparSSO call stands, and its locals

vars == <<env, settings, users, tokens, started, rq>>

NoResponse == [kind |-> "none", status |-> 0, error |-> "", token |-> 0, redirectTo |-> ""]

\* next()
NextHandler == [kind |-> "next", status |-> 0, error |-> "", token |-> 0, redirectTo |-> ""]

\* res.status(status).json({ error })
Json(status, error) ==
  [kind |-> "json", status |-> status, error |-> error, token |-> 0, redirectTo |-> ""]

\* res.redirect(302, `/sso/simple?token=...&redirectTo=...`)
Redirect(token, redirectTo) ==
  [kind |-> "redirect", status |-> 302, error |-> "", token |-> token,
   redirectTo |-> redirectTo]

IdleRequest ==
  [pc |-> "idle", ssoToken |-> NoToken, username |-> NoName, mappedRole |-> "null",
   legacyUsername |-> NoName, user |-> NullUser, legacyUser |-> NullUser, res |-> NoResponse, log |-> << >>,
   users0 |-> << >>, settings0 |-> [multi_user_mode |-> FALSE, onboarding_complete |-> FALSE],
   tokens0 |-> 0, alone |-> TRUE]

Running(q) == q.pc \notin {"idle", "done"}

InitWith(envs, settingses, userStores) ==
  /\ env \in envs
  /\ settings \in settingses
  /\ users \in userStores
  /\ tokens = << >>
  /\ started = 0
  /\ rq = [r \in Procs |-> IdleRequest]

Envs ==
  [jwtSecret : BOOLEAN, DEFAULT_MULTI_USER : EnvValues, AUTO_ENABLE_MULTI_USER : EnvValues]

Settingses ==
  {[multi_user_mode |-> FALSE, onboarding_complete |-> FALSE],
   [multi_user_mode |-> FALSE, onboarding_complete |-> TRUE],
   [multi_user_mode |-> TRUE, onboarding_complete |-> TRUE]}

Init == InitWith(Envs, Settingses, InitialUsers)

\* one more entry in the request's record of the calls it made
Logged(q, op, result) == [q EXCEPT !.log = Append(@, <<op, result>>)]

\* the request is answered and chatSetparSSO returns
Respond(q, res) == [q EXCEPT !.pc = "done", !.res = res]

\* a catch block that swallows the error and sends nothing
Catch_Swallows(q, name) == [q EXCEPT !.pc = "done"]

\* a catch block that answers 401 whatever was thrown
Catch_AlwaysUnauthorized(q, name) ==
  IF name = "TokenExpiredError" THEN Respond(q, Json(401, "SSO token expired."))
  ELSE Respond(q, Json(401, "Invalid SSO token."))

\* the catch block, lines 215-226
Catch(q, name) ==
  IF name = "TokenExpiredError" THEN Respond(q, Json(401, "SSO token expired."))
  ELSE IF name = "JsonWebTokenError" THEN Respond(q, Json(401, "Invalid SSO token."))
  ELSE Respond(q, Json(500, "SSO authentication failed."))

(* ------------------------------------------------------------------ *)
(* chatSetparSSO, from one awaited call to the next                    *)
(* ------------------------------------------------------------------ *)

Bool(b) == IF b THEN "true" ELSE "false"

\* Provision creating a user whatever the resolution found
Provision_AlwaysCreate(q) == [q EXCEPT !.pc = "User.create"]

\* Provision without the role comparison of line 187
Provision_NoRoleSync(q) ==
  IF q.user = NullUser THEN [q EXCEPT !.pc = "User.create"]
  ELSE [q EXCEPT !.pc = "TemporaryAuthToken.issue"]

\* lines 168-199: which store call the resolved (or missing) user leads to
Provision(q) ==
  IF q.user = NullUser THEN [q EXCEPT !.pc = "User.create"]
  ELSE IF q.user.role # q.mappedRole THEN [q EXCEPT !.pc = "User._update:role"]
  ELSE [q EXCEPT !.pc = "TemporaryAuthToken.issue"]

\* AfterEnsure without the 403 gate: the pipeline goes on whatever the answer
AfterEnsure_NoGate(q, multiUserMode) ==
  LET q1 == Logged(q, "ensureMultiUserModeEnabled", Bool(multiUserMode))
      username == usernameFromPayload(q.ssoToken.payload)
  IN  IF username = NoName
        THEN Respond(q1, Json(401, "Invalid SSO token payload."))
      ELSE [q1 EXCEPT !.username = username,
                      !.mappedRole = mapSetparRoleToAnything(q.ssoToken.payload),
                      !.pc = "User.get:primary"]

\* lines 121-140: the answer of ensureMultiUserModeEnabled arrives
AfterEnsure(q, multiUserMode) ==
  LET q1 == Logged(q, "ensureMultiUserModeEnabled", Bool(multiUserMode))
      username == usernameFromPayload(q.ssoToken.payload)
  IN  IF ~multiUserMode
        THEN Respond(q1, Json(403, "Multi-user mode must be enabled for SSO."))
      ELSE IF username = NoName
        THEN Respond(q1, Json(401, "Invalid SSO token payload."))
      ELSE [q1 EXCEPT !.username = username,
                      !.mappedRole = mapSetparRoleToAnything(q.ssoToken.payload),
                      !.pc = "User.get:primary"]

\* Begin without the payload check of lines 116-119
Begin_NoPayloadCheck(q, jwtSecret) ==
  LET q1 == Logged(q, "JWT.verify", q.ssoToken.verify)
  IN  IF q.ssoToken = NoToken THEN Respond(q, NextHandler)
      ELSE IF ~jwtSecret THEN Respond(q, NextHandler)
      ELSE IF q.ssoToken.verify # "ok" THEN Catch(q1, q.ssoToken.verify)
      ELSE [q1 EXCEPT !.pc = "SystemSettings.isMultiUserMode"]

\* Begin without the secret check of lines 107-110
Begin_NoSecretCheck(q, jwtSecret) ==
  LET payload == q.ssoToken.payload
      q1 == Logged(q, "JWT.verify", q.ssoToken.verify)
  IN  IF q.ssoToken = NoToken THEN Respond(q, NextHandler)
      ELSE IF q.ssoToken.verify # "ok" THEN Catch(q1, q.ssoToken.verify)
      ELSE IF payload.userId = << >> \/ payload.email = << >>
        THEN Respond(q1, Json(401, "Invalid SSO token payload."))
      ELSE [q1 EXCEPT !.pc = "SystemSettings.isMultiUserMode"]

\* lines 103-121: from the request's arrival to the first awaited call
Begin(q, jwtSecret) ==
  LET payload == q.ssoToken.payload
      q1 == Logged(q, "JWT.verify", q.ssoToken.verify)
  IN  IF q.ssoToken = NoToken THEN Respond(q, NextHandler)
      ELSE IF ~jwtSecret THEN Respond(q, NextHandler)
      ELSE IF q.ssoToken.verify # "ok" THEN Catch(q1, q.ssoToken.verify)
      ELSE IF payload.userId = << >> \/ payload.email = << >>
        THEN Respond(q1, Json(401, "Invalid SSO token payload."))
      ELSE [q1 EXCEPT !.pc = "SystemSettings.isMultiUserMode"]

\* the other callers, once one more request is in flight
Joined(q) == IF Running(q) THEN [q EXCEPT !.alone = FALSE] ELSE q

Receive(r, ssoToken) ==
  /\ ~Running(rq[r])
  /\ started' = started + 1
  /\ LET q == [IdleRequest EXCEPT
                 !.ssoToken = ssoToken, !.users0 = users, !.settings0 = settings,
                 !.tokens0 = Len(tokens),
                 !.alone = \A o \in Procs \ {r} : ~Running(rq[o])]
     IN  rq' = [o \in Procs |->
                  IF o = r THEN Begin(q, env.jwtSecret) ELSE Joined(rq[o])]
  /\ UNCHANGED <<env, settings, users, tokens>>

\* AfterIsMultiUserMode without the early return of line 78
AfterIsMultiUserMode_NoEarlyReturn(q, alreadyEnabled, byDefault, autoEnable) ==
  LET q1 == Logged(q, "SystemSettings.isMultiUserMode", Bool(alreadyEnabled))
  IN  IF byDefault THEN [q1 EXCEPT !.pc = "enableMultiUserMode:default"]
      ELSE IF ~autoEnable THEN AfterEnsure(q1, alreadyEnabled)
      ELSE [q1 EXCEPT !.pc = "enableMultiUserMode:auto"]

\* lines 77-91: ensureMultiUserModeEnabled once isMultiUserMode has answered
AfterIsMultiUserMode(q, alreadyEnabled, byDefault, autoEnable) ==
  LET q1 == Logged(q, "SystemSettings.isMultiUserMode", Bool(alreadyEnabled))
  IN  IF alreadyEnabled THEN AfterEnsure(q1, TRUE)
      ELSE IF byDefault THEN [q1 EXCEPT !.pc = "enableMultiUserMode:default"]
      ELSE IF ~autoEnable THEN AfterEnsure(q1, FALSE)
      ELSE [q1 EXCEPT !.pc = "enableMultiUserMode:auto"]

\* AfterEnableByDefault going on to the auto-enable attempt even after success
AfterEnableByDefault_AlwaysFallsBack(q, enabledByDefault, autoEnable) ==
  LET q1 == Logged(q, "enableMultiUserMode:default", Bool(enabledByDefault))
  IN  IF ~autoEnable THEN AfterEnsure(q1, enabledByDefault)
      ELSE [q1 EXCEPT !.pc = "enableMultiUserMode:auto"]

\* AfterEnableByDefault giving up after a failed default-enable attempt
AfterEnableByDefault_NoFallback(q, enabledByDefault, autoEnable) ==
  AfterEnsure(Logged(q, "enableMultiUserMode:default", Bool(enabledByDefault)),
              enabledByDefault)

\* lines 85-91: the default-enable attempt has answered
AfterEnableByDefault(q, enabledByDefault, autoEnable) ==
  LET q1 == Logged(q, "enableMultiUserMode:default", Bool(enabledByDefault))
  IN  IF enabledByDefault THEN AfterEnsure(q1, TRUE)
      ELSE IF ~autoEnable THEN AfterEnsure(q1, FALSE)
      ELSE [q1 EXCEPT !.pc = "enableMultiUserMode:auto"]

\* line 93: the auto-enable attempt has answered
AfterEnableByAuto(q, enabled) ==
  AfterEnsure(Logged(q, "enableMultiUserMode:auto", Bool(enabled)), enabled)

\* SystemSettings._updateSettings({ multi_user_mode: true, onboarding_complete: true })
UpdateSettings(success) ==
  IF success THEN [multi_user_mode |-> TRUE, onboarding_complete |-> TRUE]
  ELSE settings

IsMultiUserMode(r) ==
  /\ rq[r].pc = "SystemSettings.isMultiUserMode"
  /\ rq' = [rq EXCEPT ![r] =
             AfterIsMultiUserMode(@, settings.multi_user_mode,
                                  isTruthyEnv(env.DEFAULT_MULTI_USER),
                                  isTruthyEnv(env.AUTO_ENABLE_MULTI_USER))]
  /\ UNCHANGED <<env, settings, users, tokens, started>>

EnableByDefault(r, success) ==
  /\ rq[r].pc = "enableMultiUserMode:default"
  /\ settings' = UpdateSettings(success)
  /\ rq' = [rq EXCEPT ![r] =
             AfterEnableByDefault(@, success, isTruthyEnv(env.AUTO_ENABLE_MULTI_USER))]
  /\ UNCHANGED <<env, users, tokens, started>>

EnableByAuto(r, success) ==
  /\ rq[r].pc = "enableMultiUserMode:auto"
  /\ settings' = UpdateSettings(success)
  /\ rq' = [rq EXCEPT ![r] = AfterEnableByAuto(@, success)]
  /\ UNCHANGED <<env, users, tokens, started>>

\* what a store call may do: answer, report a failure, or throw
Outcomes == {"ok", "fail", "throw"}

\* crypto.randomBytes(32).toString("hex")
RandomPasswords == {"rnd_a", "rnd_b"}

Found(u) == IF u = NullUser THEN "null" ELSE "found"

\* an awaited store call throws: control passes to the catch block
Thrown(q, op) == Catch(Logged(q, op, "throw"), "Error")

\* line 144: the username the migration looks up
LegacyLookupName(q) == legacyUsernameFromEmail(q.ssoToken.payload.email)

\* lines 140-146: the primary lookup has answered
AfterPrimaryGet(q, found) ==
  LET q1 == Logged(q, "User.get:primary", Found(found))
      legacyUsername == LegacyLookupName(q)
      q2 == [q1 EXCEPT !.legacyUsername = legacyUsername]
  IN  IF found # NullUser THEN Provision([q1 EXCEPT !.user = found])
      ELSE IF legacyUsername # << >> /\ legacyUsername # q.username
        THEN [q2 EXCEPT !.pc = "User.get:legacy"]
      ELSE Provision(q2)

\* lines 146-148: the legacy lookup has answered
AfterLegacyGet(q, legacyUser) ==
  LET q1 == Logged(q, "User.get:legacy", Found(legacyUser))
  IN  IF legacyUser # NullUser
        THEN [q1 EXCEPT !.legacyUser = legacyUser, !.pc = "User.get:taken"]
      ELSE Provision(q1)

\* AfterTakenGet renaming without looking at the answer
AfterTakenGet_AlwaysRename(q, usernameAlreadyTaken) ==
  [Logged(q, "User.get:taken", Found(usernameAlreadyTaken))
     EXCEPT !.pc = "User._update:username"]

\* lines 148-163: the second lookup of the primary username has answered
AfterTakenGet(q, usernameAlreadyTaken) ==
  LET q1 == Logged(q, "User.get:taken", Found(usernameAlreadyTaken))
  IN  IF usernameAlreadyTaken = NullUser
        THEN [q1 EXCEPT !.pc = "User._update:username"]
      ELSE Provision([q1 EXCEPT !.user = q.legacyUser])

\* lines 150-168: the rename has answered
AfterRename(q, renamedUser) ==
  LET q1 == Logged(q, "User._update:username", Bool(renamedUser # NullUser))
  IN  IF renamedUser # NullUser THEN Provision([q1 EXCEPT !.user = renamedUser])
      ELSE Provision(q1)

\* AfterCreate without the error check of line 178
AfterCreate_IgnoresError(q, newUser) ==
  [Logged(q, "User.create", Bool(newUser # NullUser))
     EXCEPT !.user = newUser, !.pc = "TemporaryAuthToken.issue"]

\* lines 172-186: User.create has answered
AfterCreate(q, newUser) ==
  LET q1 == Logged(q, "User.create", Bool(newUser # NullUser))
  IN  IF newUser = NullUser
        THEN Respond(q1, Json(500, "Failed to create SSO user."))
      ELSE [q1 EXCEPT !.user = newUser, !.pc = "TemporaryAuthToken.issue"]

\* lines 188-199: the role update has answered
AfterRoleUpdate(q, updatedUser) ==
  LET q1 == Logged(q, "User._update:role", Bool(updatedUser # NullUser))
  IN  IF updatedUser = NullUser
        THEN Respond(q1, Json(500, "Failed to sync SSO user role."))
      ELSE [q1 EXCEPT !.user = updatedUser, !.pc = "TemporaryAuthToken.issue"]

\* AfterIssue redirecting whether or not a token was issued
AfterIssue_AlwaysRedirects(q, tempToken, path) ==
  LET q1 == Logged(q, "TemporaryAuthToken.issue", Bool(tempToken # 0))
      redirectTo == IF path # "" /\ path # "/sso/simple" THEN path ELSE "/"
  IN  Respond(q1, Redirect(tempToken, redirectTo))

\* lines 203-214: TemporaryAuthToken.issue has answered (0: no token)
AfterIssue(q, tempToken, path) ==
  LET q1 == Logged(q, "TemporaryAuthToken.issue", Bool(tempToken # 0))
      redirectTo == IF path # "" /\ path # "/sso/simple" THEN path ELSE "/"
  IN  IF tempToken = 0
        THEN Respond(q1, Json(500, "Failed to create SSO session."))
      ELSE Respond(q1, Redirect(tempToken, redirectTo))

\* an awaited User.get({ username }) and what follows it
Lookup(r, at, username, o) ==
  /\ rq[r].pc = at
  /\ rq' = [rq EXCEPT ![r] =
             IF o = "throw" THEN Thrown(@, at)
             ELSE IF at = "User.get:primary" THEN AfterPrimaryGet(@, UserGet(users, username))
             ELSE IF at = "User.get:legacy" THEN AfterLegacyGet(@, UserGet(users, username))
             ELSE AfterTakenGet(@, UserGet(users, username))]
  /\ UNCHANGED <<env, settings, users, tokens, started>>

PrimaryLookup(r, o) == Lookup(r, "User.get:primary", rq[r].username, o)

LegacyLookup(r, o) == Lookup(r, "User.get:legacy", rq[r].legacyUsername, o)

TakenLookup(r, o) == Lookup(r, "User.get:taken", rq[r].username, o)

\* User._update(legacyUser.id, { username })
MigrateLegacy(r, o) ==
  LET q == rq[r]
      id == q.legacyUser.id
      renamed == o = "ok" /\ RenameAllowed(users, id, q.username)
  IN  /\ q.pc = "User._update:username"
      /\ users' = IF renamed THEN [users EXCEPT ![id].username = q.username] ELSE users
      /\ rq' = [rq EXCEPT ![r] =
                 IF o = "throw" THEN Thrown(@, "User._update:username")
                 ELSE AfterRename(@, IF renamed THEN [id |-> id, role |-> users[id].role]
                                     ELSE NullUser)]
      /\ UNCHANGED <<env, settings, tokens, started>>

\* User.create({ username, password: randomPassword, role: mappedRole })
CreateUser(r, o, randomPassword) ==
  LET q == rq[r]
      created == o = "ok" /\ CreateAllowed(users, q.username)
  IN  /\ q.pc = "User.create"
      /\ users' = IF created
                    THEN Append(users, UserRow(q.username, q.mappedRole, randomPassword))
                    ELSE users
      /\ rq' = [rq EXCEPT ![r] =
                 IF o = "throw" THEN Thrown(@, "User.create")
                 ELSE AfterCreate(@, IF created
                                       THEN [id |-> Len(users) + 1, role |-> q.mappedRole]
                                       ELSE NullUser)]
      /\ UNCHANGED <<env, settings, tokens, started>>

\* SyncRole sending a new password along with the role
SyncRole_ResetsPassword(r, o) ==
  LET q == rq[r]
      id == q.user.id
  IN  /\ q.pc = "User._update:role"
      /\ users' = IF o = "ok"
                    THEN [users EXCEPT ![id].role = q.mappedRole, ![id].password = "rnd_a"]
                    ELSE users
      /\ rq' = [rq EXCEPT ![r] =
                 IF o = "throw" THEN Thrown(@, "User._update:role")
                 ELSE AfterRoleUpdate(@, IF o = "ok" THEN [id |-> id, role |-> q.mappedRole]
                                         ELSE NullUser)]
      /\ UNCHANGED <<env, settings, tokens, started>>

\* User._update(user.id, { role: mappedRole })
SyncRole(r, o) ==
  LET q == rq[r]
      id == q.user.id
  IN  /\ q.pc = "User._update:role"
      /\ users' = IF o = "ok" THEN [users EXCEPT ![id].role = q.mappedRole] ELSE users
      /\ rq' = [rq EXCEPT ![r] =
                 IF o = "throw" THEN Thrown(@, "User._update:role")
                 ELSE AfterRoleUpdate(@, IF o = "ok" THEN [id |-> id, role |-> q.mappedRole]
                                         ELSE NullUser)]
      /\ UNCHANGED <<env, settings, tokens, started>>

\* TemporaryAuthToken.issue(user.id)
IssueToken(r, o, path) ==
  LET q == rq[r]
  IN  /\ q.pc = "TemporaryAuthToken.issue"
      /\ tokens' = IF o = "ok" THEN Append(tokens, q.user.id) ELSE tokens
      /\ rq' = [rq EXCEPT ![r] =
                 IF o = "throw" THEN Thrown(@, "TemporaryAuthToken.issue")
                 ELSE AfterIssue(@, IF o = "ok" THEN Len(tokens) + 1 ELSE 0, path)]
      /\ UNCHANGED <<env, settings, users, started>>

\* a step of caller r other than the arrival of its request
Step(r, passwords, paths) ==
  \/ IsMultiUserMode(r)
  \/ \E ok \in BOOLEAN : EnableByDefault(r, ok)
  \/ \E ok \in BOOLEAN : EnableByAuto(r, ok)
  \/ \E o \in {"ok", "throw"} : PrimaryLookup(r, o)
  \/ \E o \in {"ok", "throw"} : LegacyLookup(r, o)
  \/ \E o \in {"ok", "throw"} : TakenLookup(r, o)
  \/ \E o \in Outcomes : MigrateLegacy(r, o)
  \/ \E o \in Outcomes, pw \in passwords : CreateUser(r, o, pw)
  \/ \E o \in Outcomes : SyncRole(r, o)
  \/ \E o \in Outcomes, path \in paths : IssueToken(r, o, path)

(* ------------------------------------------------------------------ *)
(* ensureSetparDefaultMultiUserMode, the exported boot-time bootstrap   *)
(* ------------------------------------------------------------------ *)

\* return <value> of ensureSetparDefaultMultiUserMode
Return(value) ==
  [kind |-> IF value THEN "return:true" ELSE "return:false", status |-> 0,
   error |-> "", token |-> 0, redirectTo |-> ""]

\* lines 66-71: isMultiUserMode has answered
AfterDefaultIsMultiUserMode(q, alreadyEnabled, byDefault) ==
  LET q1 == Logged(q, "ensureSetparDefault:isMultiUserMode", Bool(alreadyEnabled))
  IN  IF alreadyEnabled THEN Respond(q1, Return(TRUE))
      ELSE IF ~byDefault THEN Respond(q1, Return(FALSE))
      ELSE [q1 EXCEPT !.pc = "ensureSetparDefault:enableMultiUserMode"]

\* line 65: the call begins and awaits SystemSettings.isMultiUserMode()
CallEnsureDefault(r) ==
  /\ ~Running(rq[r])
  /\ started' = started + 1
  /\ LET q == [IdleRequest EXCEPT
                 !.pc = "ensureSetparDefault:isMultiUserMode",
                 !.users0 = users, !.settings0 = settings, !.tokens0 = Len(tokens),
                 !.alone = \A o \in Procs \ {r} : ~Running(rq[o])]
     IN  rq' = [o \in Procs |-> IF o = r THEN q ELSE Joined(rq[o])]
  /\ UNCHANGED <<env, settings, users, tokens>>

\* lines 66-71
DefaultIsMultiUserMode(r) ==
  /\ rq[r].pc = "ensureSetparDefault:isMultiUserMode"
  /\ rq' = [rq EXCEPT ![r] =
             AfterDefaultIsMultiUserMode(@, settings.multi_user_mode,
                                         isTruthyEnv(env.DEFAULT_MULTI_USER))]
  /\ UNCHANGED <<env, settings, users, tokens, started>>

\* line 73: return await enableMultiUserMode("CHAT_SETPAR_DEFAULT_MULTI_USER")
DefaultEnable(r, success) ==
  /\ rq[r].pc = "ensureSetparDefault:enableMultiUserMode"
  /\ settings' = UpdateSettings(success)
  /\ rq' = [rq EXCEPT ![r] =
             Respond(Logged(@, "ensureSetparDefault:enableMultiUserMode", Bool(success)),
                     Return(success))]
  /\ UNCHANGED <<env, users, tokens, started>>

\* a step of a call of ensureSetparDefaultMultiUserMode by caller r
StepDefault(r) ==
  \/ DefaultIsMultiUserMode(r)
  \/ \E ok \in BOOLEAN : DefaultEnable(r, ok)

\* requests arrive one after the other: each is answered before the next arrives
Next ==
  \/ \E t \in {NoToken} \cup Tokens : started < MaxRequests /\ Receive("r1", t)
  \/ Step("r1", RandomPasswords, Paths)
  \/ started < MaxRequests /\ CallEnsureDefault("r1")
  \/ StepDefault("r1")

Spec == Init /\ [][Next]_vars

(* ------------------------------------------------------------------ *)
(* Two callers whose requests interleave at every awaited call         *)
(* ------------------------------------------------------------------ *)

\* most requests the two interleaving callers send, together
MaxRaceRequests == 3

\* one external identity (and one sharing its email local-part), as its tokens
RaceTokens ==
  {[verify |-> "ok", payload |-> p] :
     p \in { Payload(<<"U","1">>, EmailBob, FALSE, FALSE, "user"),
             Payload(<<"U","1">>, EmailSetparU1, FALSE, TRUE, "user") }}

RaceEnvs ==
  [jwtSecret : {TRUE}, DEFAULT_MULTI_USER : {Undefined, <<"1">>},
   AUTO_ENABLE_MULTI_USER : {<<"1">>}]

RaceSettingses ==
  {[multi_user_mode |-> b, onboarding_complete |-> b] : b \in BOOLEAN}

RaceUsers ==
  { << >>,
    <<UserRow(NameBob, "default", "pw_a")>>,
    <<UserRow(NameBob, "default", "pw_a"), UserRow(NameSetparU1, "admin", "pw_b")>> }

InitRace == InitWith(RaceEnvs, RaceSettingses, RaceUsers)

\* the callers are interchangeable: r2 is the one that arrives second
NextRace ==
  \/ \E t \in RaceTokens : started < MaxRaceRequests /\ Receive("r1", t)
  \/ \E t \in RaceTokens :
       started < MaxRaceRequests /\ rq["r1"].pc # "idle" /\ Receive("r2", t)
  \/ \E r \in Procs : Step(r, {"rnd_a"}, {"/workspace/a"})
  \/ started < MaxRaceRequests /\ rq["r1"].pc # "idle" /\ CallEnsureDefault("r2")
  \/ StepDefault("r2")

SpecRace == InitRace /\ [][NextRace]_vars

(* ------------------------------------------------------------------ *)
(* Properties                                                          *)
(* ------------------------------------------------------------------ *)

\* the request has had this answer from this call
Has(q, op, result) == \E i \in DOMAIN q.log : q.log[i] = <<op, result>>

\* the request has had an answer from this call
Called(q, op) == \E i \in DOMAIN q.log : q.log[i][1] = op

\* the request has made this call: answered, or still awaited
Made(q, op) == Called(q, op) \/ q.pc = op

CountOf(q, op) == Cardinality({i \in DOMAIN q.log : q.log[i][1] = op})

Done(q) == q.pc = "done"

UserStoreOps ==
  {"User.get:primary", "User.get:legacy", "User.get:taken",
   "User._update:username", "User.create", "User._update:role"}

\* the request carried a token that verifies, with userId and email, and the
\* secret is configured: it reaches the multi-user bootstrap
ReachesBootstrap(q) ==
  /\ env.jwtSecret
  /\ q.ssoToken.verify = "ok"
  /\ q.ssoToken.payload.userId # << >>
  /\ q.ssoToken.payload.email # << >>

SwitchesOff ==
  /\ ~isTruthyEnv(env.DEFAULT_MULTI_USER)
  /\ ~isTruthyEnv(env.AUTO_ENABLE_MULTI_USER)

\* C1: a request makes no user-store call and issues no exchange token unless
\* ensureMultiUserModeEnabled has answered true earlier in that request; and a
\* request that reaches the bootstrap with multi-user mode disabled and both
\* switches off is answered 403, with the user store and the settings store
\* left as they were.
C1_BootstrapBeforeUsers ==
  \A r \in Procs :
    LET q == rq[r]
    IN  /\ \A op \in UserStoreOps \cup {"TemporaryAuthToken.issue"} :
             Made(q, op) => Has(q, "ensureMultiUserModeEnabled", "true")
        /\ \A i \in DOMAIN q.log :
             q.log[i][1] \in UserStoreOps \cup {"TemporaryAuthToken.issue"}
               => \E j \in 1..(i - 1) : q.log[j] = <<"ensureMultiUserModeEnabled", "true">>
        /\ ( /\ Done(q)
             /\ ReachesBootstrap(q)
             /\ ~q.settings0.multi_user_mode
             /\ SwitchesOff )
           => /\ q.res = Json(403, "Multi-user mode must be enabled for SSO.")
              /\ users = q.users0
              /\ settings = q.settings0

C1_Witness ==
  \E r \in Procs :
    /\ Done(rq[r])
    /\ ReachesBootstrap(rq[r])
    /\ SwitchesOff
    /\ ~rq[r].settings0.multi_user_mode
    /\ rq[r].res.status = 403
    /\ users # << >>

\* C2: once the store has rejected the rename of the legacy user, the request
\* is answered with a failure and makes no User.create, no role update and no
\* token issuance; the legacy user's row is as it was before the request.
C2_RenameFailureAborts ==
  \A r \in Procs :
    LET q == rq[r]
    IN  Has(q, "User._update:username", "false")
          => /\ Done(q)
             /\ q.res.kind = "json"
             /\ q.res.status = 500
             /\ ~Made(q, "User.create")
             /\ ~Made(q, "User._update:role")
             /\ ~Made(q, "TemporaryAuthToken.issue")
             /\ users[q.legacyUser.id] = q.users0[q.legacyUser.id]

\* rule 2 of the username derivation: "setpar_" + sanitized local-part, 32 at most
Rule2Username(email) ==
  Substring0(SetparPrefix \o legacyUsernameFromEmail(email), MaxUsernameLen)

\* C3: the username the migration looks up is the rule-2 username of the email,
\* and a user renamed by the migration held that prefixed username before.
C3_LegacyLookupIsRule2 ==
  \A r \in Procs :
    LET q == rq[r]
    IN  Made(q, "User.get:legacy")
          => /\ q.legacyUsername = Rule2Username(q.ssoToken.payload.email)
             /\ Has(q, "User._update:username", "true")
                  => q.users0[q.legacyUser.id].username
                       = Rule2Username(q.ssoToken.payload.email)

\* the store the request found held this username
Held0(q, username) == Holders(q.users0, username) # {}

\* C4: a request answered 302 that found a legacy user and no holder of the
\* primary username made exactly one rename and no User.create; a request
\* answered 302 that found a holder of the primary username made no rename and
\* no User.create, and its exchange token is bound to that holder's id.
C4_MigratesOnce ==
  \A r \in Procs :
    LET q == rq[r]
        legacy == legacyUsernameFromEmail(q.ssoToken.payload.email)
    IN  (Done(q) /\ q.res.status = 302)
          => /\ (Held0(q, legacy) /\ legacy # q.username /\ ~Held0(q, q.username))
                  => /\ CountOf(q, "User._update:username") = 1
                     /\ ~Called(q, "User.create")
             /\ Held0(q, q.username)
                  => /\ ~Called(q, "User._update:username")
                     /\ ~Called(q, "User.create")
                     /\ tokens[q.res.token] = UserGet(q.users0, q.username).id

\* a store call of the request reported a failure or threw
StoreFailure(q) ==
  \E i \in DOMAIN q.log :
    \/ q.log[i][2] = "throw"
    \/ /\ q.log[i][1] \in {"User._update:username", "User.create", "User._update:role",
                           "TemporaryAuthToken.issue"}
       /\ q.log[i][2] = "false"

\* C5: usernames stay unique in the user store; two requests for one username
\* never both have a User.create succeed; a request whose User.create is
\* rejected is answered 500 "Failed to create SSO user."; and a request that
\* arrives once the username is held makes no User.create and, unless a store
\* call fails, is answered 302 with a token bound to the holder.
C5_NoDuplicateUser ==
  /\ \A i, j \in DOMAIN users : users[i].username = users[j].username => i = j
  /\ \A r, o \in Procs :
       (r # o /\ rq[r].username = rq[o].username)
         => ~(Has(rq[r], "User.create", "true") /\ Has(rq[o], "User.create", "true"))
  /\ \A r \in Procs :
       LET q == rq[r]
       IN  /\ Has(q, "User.create", "false")
                => Done(q) /\ q.res = Json(500, "Failed to create SSO user.")
           /\ Held0(q, q.username)
                => /\ ~Made(q, "User.create")
                   /\ (Done(q) /\ ~StoreFailure(q)) => q.res.status = 302
                   /\ (Done(q) /\ q.res.status = 302)
                        => tokens[q.res.token] = UserGet(q.users0, q.username).id

C5_Witness ==
  \E r, o \in Procs :
    /\ r # o
    /\ ~rq[r].alone /\ ~rq[o].alone
    /\ rq[r].username = rq[o].username
    /\ Has(rq[r], "User.create", "true")
    /\ Done(rq[o])
    /\ rq[o].log[Len(rq[o].log)] = <<"User.create", "false">>
    /\ rq[o].res.status = 500

\* C6: a request that finds the primary username held, at its first lookup or
\* at the second one made after the legacy user was found, makes no rename and
\* no User.create; with the legacy user found it goes on with the legacy user
\* as it is, to the role update and the token, and is answered 302 unless one
\* of those store calls fails; run alone, it leaves every username as it was.
C6_ConflictKeepsLegacy ==
  \A r \in Procs :
    LET q == rq[r]
        conflict == Has(q, "User.get:taken", "found")
    IN  /\ (Held0(q, q.username) \/ conflict)
             => ~Made(q, "User._update:username") /\ ~Made(q, "User.create")
        /\ conflict
             => /\ q.user.id = q.legacyUser.id
                /\ Done(q) => (q.res.status = 302 \/ StoreFailure(q))
                /\ (Done(q) /\ q.res.status = 302) => tokens[q.res.token] = q.legacyUser.id
        /\ (q.alone /\ Held0(q, q.username))
             => \A i \in DOMAIN q.users0 : users[i].username = q.users0[i].username

C6_Witness ==
  \E r \in Procs :
    LET q == rq[r]
    IN  /\ Done(q)
        /\ q.res.status = 302
        /\ Has(q, "User.get:taken", "found")
        /\ UserGet(users, q.username).id # q.legacyUser.id
        /\ users[q.legacyUser.id].username = q.legacyUsername

\* the exchange token of the response was issued during this request
FreshToken(q) == q.res.token > q.tokens0 /\ q.res.token <= Len(tokens)

\* C7: with multi-user mode enabled, a request that finds neither the primary
\* nor the legacy username in the store makes at most one User.create, is
\* answered 302 unless a store call fails, and when answered 302 has added
\* exactly one row, with the derived username, to which its fresh token is
\* bound; a request that finds the primary username held makes no User.create
\* and its 302 carries a fresh token bound to that same holder.
C7_CreateOnceThenReuse ==
  \A r \in Procs :
    LET q == rq[r]
        name == usernameFromPayload(q.ssoToken.payload)
        legacy == legacyUsernameFromEmail(q.ssoToken.payload.email)
    IN  (Done(q) /\ ReachesBootstrap(q) /\ q.settings0.multi_user_mode /\ name # NoName)
          => /\ ~StoreFailure(q) => q.res.status = 302
             /\ q.res.status = 302 => FreshToken(q)
             /\ (~Held0(q, name) /\ ~Held0(q, legacy))
                  => /\ CountOf(q, "User.create") <= 1
                     /\ q.res.status = 302
                          => /\ Has(q, "User.create", "true")
                             /\ Len(users) = Len(q.users0) + 1
                             /\ users[Len(users)].username = name
                             /\ tokens[q.res.token] = Len(users)
             /\ Held0(q, name)
                  => /\ ~Called(q, "User.create")
                     /\ Len(users) = Len(q.users0)
                     /\ q.res.status = 302
                          => tokens[q.res.token] = UserGet(q.users0, name).id

C7_Witness ==
  \E r \in Procs :
    LET q == rq[r]
        name == usernameFromPayload(q.ssoToken.payload)
    IN  /\ Done(q)
        /\ q.res.status = 302
        /\ started = 2
        /\ Held0(q, name)
        /\ q.users0[UserGet(q.users0, name).id].password \in RandomPasswords
        /\ tokens[q.res.token] = tokens[1]
        /\ q.res.token = 2

\* C8: when a request is answered 302, the stored role of the user its token
\* is bound to is the role mapped from its payload; when the role update is
\* rejected the request is answered 500 "Failed to sync SSO user role." and
\* issues no token.
C8_RoleSynced ==
  \A r \in Procs :
    LET q == rq[r]
    IN  /\ (Done(q) /\ q.res.status = 302)
             => /\ tokens[q.res.token] = q.user.id
                /\ users[q.user.id].role = q.mappedRole
                /\ q.mappedRole = mapSetparRoleToAnything(q.ssoToken.payload)
        /\ Has(q, "User._update:role", "false")
             => /\ Done(q)
                /\ q.res = Json(500, "Failed to sync SSO user role.")
                /\ ~Called(q, "TemporaryAuthToken.issue")
                /\ Len(tokens) = q.tokens0

C8_Witness ==
  \E r \in Procs :
    LET q == rq[r]
    IN  /\ Done(q)
        /\ q.res.status = 302
        /\ Has(q, "User._update:username", "true")
        /\ Has(q, "User._update:role", "true")
        /\ q.users0[q.user.id].role # q.mappedRole

\* C9 as stated: a request that resolves to a user the store already held
\* leaves that user's username and credential as they were.
C9_OnlyRoleWritten ==
  \A r \in Procs :
    LET q == rq[r]
    IN  (Done(q) /\ q.user # NullUser /\ q.user.id <= Len(q.users0))
          => /\ users[q.user.id].username = q.users0[q.user.id].username
             /\ users[q.user.id].password = q.users0[q.user.id].password

\* C9, amended: of the users the store already held, a request never writes a
\* credential; it writes a username only by the migration rename, of the
\* legacy user, from the legacy username to the primary one; and it writes a
\* role only by the role update, of the resolved user, to the mapped role.
C9_RoleAndMigrationOnly ==
  \A r \in Procs :
    LET q == rq[r]
    IN  \A i \in DOMAIN q.users0 :
          /\ users[i].password = q.users0[i].password
          /\ users[i].username # q.users0[i].username
               => /\ Has(q, "User._update:username", "true")
                  /\ i = q.legacyUser.id
                  /\ q.users0[i].username = q.legacyUsername
                  /\ users[i].username = q.username
          /\ users[i].role # q.users0[i].role
               => /\ Has(q, "User._update:role", "true")
                  /\ i = q.user.id
                  /\ users[i].role = q.mappedRole

C9_Witness ==
  \E r \in Procs :
    LET q == rq[r]
    IN  /\ Done(q)
        /\ q.res.status = 302
        /\ Has(q, "User._update:username", "true")
        /\ Has(q, "User._update:role", "true")
        /\ users[q.user.id].username # q.users0[q.user.id].username
        /\ users[q.user.id].role # q.users0[q.user.id].role

\* C10 as stated: the bootstrap fails only if both switches are absent or both
\* enable attempts failed.
C10_FailsOnlyIfBothAbsentOrBothFail ==
  \A r \in Procs :
    LET q == rq[r]
    IN  Has(q, "ensureMultiUserModeEnabled", "false")
          => \/ SwitchesOff
             \/ /\ Has(q, "enableMultiUserMode:default", "false")
                /\ Has(q, "enableMultiUserMode:auto", "false")

\* C10, amended: the bootstrap fails, and the request is answered 403, exactly
\* when multi-user mode is read as disabled and every switch that is set had
\* its enable attempt fail (none, one or two attempts); otherwise it succeeds.
C10_FailsIffEveryAttemptFails ==
  \A r \in Procs :
    LET q == rq[r]
        failed == Has(q, "ensureMultiUserModeEnabled", "false")
        everyAttemptFailed ==
          /\ Has(q, "SystemSettings.isMultiUserMode", "false")
          /\ isTruthyEnv(env.DEFAULT_MULTI_USER)
               => Has(q, "enableMultiUserMode:default", "false")
          /\ isTruthyEnv(env.AUTO_ENABLE_MULTI_USER)
               => Has(q, "enableMultiUserMode:auto", "false")
    IN  /\ (Done(q) /\ ReachesBootstrap(q)) => Called(q, "ensureMultiUserModeEnabled")
        /\ Called(q, "ensureMultiUserModeEnabled")
             => /\ failed <=> everyAttemptFailed
                /\ failed <=> Has(q, "ensureMultiUserModeEnabled", "true") = FALSE
                /\ failed
                     => Done(q) /\ q.res = Json(403, "Multi-user mode must be enabled for SSO.")
                /\ ~failed => q.res.status # 403

C10_Witness ==
  \E r \in Procs :
    LET q == rq[r]
    IN  /\ Done(q)
        /\ q.res.status = 403
        /\ isTruthyEnv(env.DEFAULT_MULTI_USER)
        /\ ~isTruthyEnv(env.AUTO_ENABLE_MULTI_USER)
        /\ q.log[Len(q.log) - 1] = <<"enableMultiUserMode:default", "false">>

EnableOps ==
  {"enableMultiUserMode:default", "enableMultiUserMode:auto",
   "ensureSetparDefault:enableMultiUserMode"}

\* the caller is running, or has run, ensureSetparDefaultMultiUserMode
IsDefaultCall(q) == Made(q, "ensureSetparDefault:isMultiUserMode")

\* C11: a run of the bootstrap, by a request or by
\* ensureSetparDefaultMultiUserMode, that begins with multi-user mode enabled
\* or reads it as enabled makes no enable call and answers true, and the
\* settings are as they were when it began, whatever the switches and
\* whatever the other callers do meanwhile.
C11_EnabledIsNoOp ==
  \A r \in Procs :
    LET q == rq[r]
        readEnabled ==
          \/ Has(q, "SystemSettings.isMultiUserMode", "true")
          \/ Has(q, "ensureSetparDefault:isMultiUserMode", "true")
    IN  /\ (q.settings0.multi_user_mode \/ readEnabled)
             => /\ \A op \in EnableOps : ~Made(q, op)
                /\ ~Has(q, "ensureMultiUserModeEnabled", "false")
                /\ q.res.kind # "return:false"
                /\ q.res.status # 403
        /\ q.settings0.multi_user_mode
             => /\ settings = q.settings0
                /\ Called(q, "SystemSettings.isMultiUserMode")
                     => /\ Has(q, "SystemSettings.isMultiUserMode", "true")
                        /\ Has(q, "ensureMultiUserModeEnabled", "true")
                /\ Called(q, "ensureSetparDefault:isMultiUserMode")
                     => Done(q) /\ q.res = Return(TRUE)

C11_Witness ==
  /\ isTruthyEnv(env.DEFAULT_MULTI_USER)
  /\ rq["r1"].settings0.multi_user_mode
  /\ rq["r2"].settings0.multi_user_mode
  /\ ~rq["r1"].alone
  /\ Has(rq["r1"], "ensureMultiUserModeEnabled", "true")
  /\ rq["r2"].res = Return(TRUE)

\* the caller is running, or has run, the middleware chatSetparSSO
IsRequest(q) == q.pc # "idle" /\ ~IsDefaultCall(q)

\* C12: a request without sso_token, or with one while the secret is not
\* configured, ends in the next handler with no response of the middleware,
\* without verifying the token and without a single call to the settings,
\* user or exchange-token store; the stores are as the request found them.
C12_PassThrough ==
  LET q == rq["r1"]
  IN  (IsRequest(q) /\ (q.ssoToken = NoToken \/ ~env.jwtSecret))
        => /\ Done(q)
           /\ q.res = NextHandler
           /\ q.log = << >>
           /\ users = q.users0 /\ settings = q.settings0
           /\ Len(tokens) = q.tokens0

C12_Witness ==
  LET q == rq["r1"]
  IN  /\ IsRequest(q) /\ q.ssoToken # NoToken /\ q.ssoToken.verify = "ok"
      /\ ~env.jwtSecret /\ ~settings.multi_user_mode
      /\ isTruthyEnv(env.DEFAULT_MULTI_USER)
      /\ q.res = NextHandler

PayloadIncomplete == Json(401, "Invalid SSO token payload.")

\* C13: a verified payload is answered "incomplete" exactly when it has
\* neither userId nor email; one with an email whose sanitized local-part
\* is non-empty and no userId goes on to identity resolution under
\* "setpar_" + local-part.
C13_IncompleteIffBothMissing ==
  LET q == rq["r1"]
      p == q.ssoToken.payload
  IN  (IsRequest(q) /\ Made(q, "JWT.verify") /\ q.ssoToken.verify = "ok")
        => /\ (q.res = PayloadIncomplete) <=> (p.userId = << >> /\ p.email = << >>)
           /\ (p.userId = << >> /\ legacyUsernameFromEmail(p.email) # << >>)
                => /\ Called(q, "SystemSettings.isMultiUserMode")
                        \/ q.pc = "SystemSettings.isMultiUserMode"
                   /\ Called(q, "ensureMultiUserModeEnabled")
                        => q.res.status = 403
                             \/ q.username = SetparPrefix \o legacyUsernameFromEmail(p.email)

SessionIssuanceFailed == Json(500, "Failed to create SSO session.")

\* no other caller has run since the server started
OnlyCaller(r) == \A o \in Procs \ {r} : rq[o].pc = "idle"

\* C14: a request answered 302 made exactly one TemporaryAuthToken.issue, which
\* succeeded; the token in its redirect was issued during the request and is
\* bound to the id of the user the request found or created; a request with
\* any other outcome was issued no token and returns none; a rejected
\* issuance is answered 500 "Failed to create SSO session.".
C14_OneTokenPerRedirect ==
  \A r \in Procs :
    LET q == rq[r]
        issued == Len(tokens) - q.tokens0
    IN  (IsRequest(q) /\ Done(q))
          => /\ q.res.status = 302
                  => /\ q.res.kind = "redirect"
                     /\ CountOf(q, "TemporaryAuthToken.issue") = 1
                     /\ Has(q, "TemporaryAuthToken.issue", "true")
                     /\ FreshToken(q)
                     /\ q.user # NullUser
                     /\ tokens[q.res.token] = q.user.id
                     /\ q.user.id \in DOMAIN users
                     /\ IF Has(q, "User.create", "true")
                          THEN q.user.id \notin DOMAIN q.users0
                          ELSE \/ Has(q, "User.get:primary", "found")
                               \/ Has(q, "User.get:legacy", "found")
                     /\ OnlyCaller(r) => issued = 1
             /\ q.res.status # 302
                  => /\ q.res.kind \in {"next", "json"}
                     /\ q.res.token = 0
                     /\ ~Has(q, "TemporaryAuthToken.issue", "true")
                     /\ OnlyCaller(r) => issued = 0
             /\ Has(q, "TemporaryAuthToken.issue", "false")
                  => q.res = SessionIssuanceFailed

C14_Witness ==
  LET q == rq["r1"]
  IN  /\ Done(q) /\ q.res.status = 302
      /\ Has(q, "User.create", "true")
      /\ q.res.token = 2
      /\ tokens[2] # tokens[1]
      /\ q.res.redirectTo = "/workspace/a"

Last(log) == log[Len(log)]

\* the failure that ended the request: how its last call answered
TokenRejected(q) ==
  Last(q.log)[1] = "JWT.verify"
    /\ Last(q.log)[2] \in {"TokenExpiredError", "JsonWebTokenError"}

IncompletePayload(q) ==
  /\ Last(q.log) = <<"JWT.verify", "ok">>
  /\ q.ssoToken.payload.userId = << >> \/ q.ssoToken.payload.email = << >>

UnresolvableIdentity(q) ==
  /\ Last(q.log) = <<"ensureMultiUserModeEnabled", "true">>
  /\ usernameFromPayload(q.ssoToken.payload) = NoName

MultiTenancyDisabled(q) == Last(q.log) = <<"ensureMultiUserModeEnabled", "false">>

DownstreamFailure(q) ==
  \/ Last(q.log)[2] = "throw"
  \/ Last(q.log) \in {<<"User.create", "false">>, <<"User._update:role", "false">>,
                      <<"TemporaryAuthToken.issue", "false">>}

\* C15: a request answered with an error after carrying a token with the secret
\* configured is answered 401 when the token is expired, malformed or wrongly
\* signed, the payload incomplete or the identity unresolvable, 403 when
\* multi-user mode is unavailable, and 500 when a user creation, a role
\* update or a token issuance fails or a store call throws; 401 and 403 are
\* given for nothing else, and 500 otherwise only for an error of another
\* name thrown by JWT.verify.
C15_StatusByFailureKind ==
  \A r \in Procs :
    LET q == rq[r]
        unauthorized ==
          TokenRejected(q) \/ IncompletePayload(q) \/ UnresolvableIdentity(q)
    IN  (IsRequest(q) /\ Done(q) /\ q.res.kind = "json")
          => /\ q.log # << >> /\ env.jwtSecret /\ q.ssoToken # NoToken
             /\ q.res.status \in {401, 403, 500}
             /\ q.res.error # ""
             /\ unauthorized <=> q.res.status = 401
             /\ MultiTenancyDisabled(q) <=> q.res.status = 403
             /\ DownstreamFailure(q) => q.res.status = 500
             /\ q.res.status = 500
                  => DownstreamFailure(q) \/ Last(q.log) = <<"JWT.verify", "NotBeforeError">>

C15_Witness ==
  LET q == rq["r1"]
  IN  /\ Done(q) /\ q.res.status = 500
      /\ Last(q.log) = <<"User._update:role", "throw">>
      /\ started = 2
      /\ rq["r1"].users0 # << >>

\* the part of a derived username after the prefix "setpar_"
AfterPrefix(username) == SubSeq(username, Len(SetparPrefix) + 1, Len(username))

HasPrefix(username) ==
  /\ Len(username) >= Len(SetparPrefix)
  /\ SubSeq(username, 1, Len(SetparPrefix)) = SetparPrefix

\* the username the request resolves under, once line 131 has computed it
Derived(q) ==
  /\ Has(q, "ensureMultiUserModeEnabled", "true")
  /\ usernameFromPayload(q.ssoToken.payload) # NoName

\* C16 as claimed: every derived username is at most 32 characters long,
\* starts with "setpar_", and has only [a-z0-9_] after the prefix.
C16_OnlyWordCharacters ==
  \A r \in Procs :
    LET q == rq[r]
        username == usernameFromPayload(q.ssoToken.payload)
    IN  Derived(q)
          => /\ q.username = username
             /\ Len(username) <= MaxUsernameLen
             /\ HasPrefix(username)
             /\ Range(AfterPrefix(username)) \subseteq (PrimaryClass \cup {"_"})

\* C16: every derived username is at most 32 characters long and starts with
\* "setpar_"; after the prefix it has only [a-z0-9] when derived from the
\* userId, and only [a-z0-9._-] when derived from the email.
C16_UsernameShape ==
  \A r \in Procs :
    LET q == rq[r]
        username == usernameFromPayload(q.ssoToken.payload)
        primary == KeepOnly(ToLowerCase(q.ssoToken.payload.userId), PrimaryClass) # << >>
    IN  Derived(q)
          => /\ q.username = username
             /\ Len(username) <= MaxUsernameLen
             /\ HasPrefix(username)
             /\ Len(username) > Len(SetparPrefix)
             /\ Range(AfterPrefix(username))
                  \subseteq (IF primary THEN PrimaryClass ELSE LegacyClass \ {"@"})

C16_Witness ==
  LET q == rq["r1"]
  IN  /\ Derived(q)
      /\ q.ssoToken.payload.email = EmailLong
      /\ Len(q.username) = MaxUsernameLen
      /\ "-" \in Range(q.username)
      /\ Has(q, "User.create", "true")

\* C17: the mapped role is "manager" exactly when the payload has the
\* super-admin flag, the owner flag, or the role "superadmin"; for every other
\* payload it is "default"; it is never anything else.
C17_TwoRoles ==
  \A r \in Procs :
    LET q == rq[r]
        p == q.ssoToken.payload
        elevated == p.isSuperAdmin \/ p.isOwner \/ p.role = "superadmin"
    IN  /\ mapSetparRoleToAnything(p) \in {"manager", "default"}
        /\ mapSetparRoleToAnything(p) = "manager" <=> elevated
        /\ Derived(q)
             => /\ q.mappedRole \in {"manager", "default"}
                /\ q.mappedRole = "manager" <=> elevated
                /\ q.mappedRole = "default" <=> ~elevated

C17_Witness ==
  LET q == rq["r1"]
  IN  /\ Derived(q) /\ Done(q) /\ q.res.status = 302
      /\ q.ssoToken.payload.isSuperAdmin /\ ~q.ssoToken.payload.isOwner
      /\ q.ssoToken.payload.role = "user"
      /\ q.mappedRole = "manager"
      /\ users[q.user.id].role = "manager"
      /\ started = 2

\* positions in the call record of the answered calls of one kind
At(q, op) == {i \in DOMAIN q.log : q.log[i][1] = op}

\* C18: a run of ensureMultiUserModeEnabled that reads the mode as disabled
\* makes at most one default-enable and one auto-enable attempt, the default
\* one first and only with its switch set; the auto attempt only with its
\* switch set and after no default attempt or a failed one; and no enable
\* call once one has succeeded.
C18_EnableAttemptsOrdered ==
  \A r \in Procs :
    LET q == rq[r]
        default == "enableMultiUserMode:default"
        auto == "enableMultiUserMode:auto"
    IN  Has(q, "SystemSettings.isMultiUserMode", "false")
          => /\ CountOf(q, default) + (IF q.pc = default THEN 1 ELSE 0) <= 1
             /\ CountOf(q, auto) + (IF q.pc = auto THEN 1 ELSE 0) <= 1
             /\ \A i \in At(q, default) : \A j \in At(q, auto) : i < j
             /\ q.pc = default => ~Called(q, auto)
             /\ Made(q, default) => isTruthyEnv(env.DEFAULT_MULTI_USER)
             /\ Made(q, auto)
                  => /\ isTruthyEnv(env.AUTO_ENABLE_MULTI_USER)
                     /\ ~Called(q, default) \/ Has(q, default, "false")
                     /\ ~Called(q, default) => ~isTruthyEnv(env.DEFAULT_MULTI_USER)
             /\ \A i \in DOMAIN q.log :
                  (q.log[i][1] \in {default, auto} /\ q.log[i][2] = "true")
                    => /\ q.pc \notin {default, auto}
                       /\ \A j \in DOMAIN q.log :
                            j > i => q.log[j][1] \notin {default, auto}

C18_Witness ==
  LET q == rq["r1"]
  IN  /\ Has(q, "SystemSettings.isMultiUserMode", "false")
      /\ Has(q, "enableMultiUserMode:default", "false")
      /\ Has(q, "enableMultiUserMode:auto", "true")
      /\ Has(q, "ensureMultiUserModeEnabled", "true")
      /\ settings.multi_user_mode

\* the three ways an execution of chatSetparSSO ends
Outcome(res) ==
  \/ res = NextHandler
  \/ \E t \in DOMAIN tokens : \E path \in Paths \cup {"/"} : res = Redirect(t, path)
  \/ \E status \in {401, 403, 500} : res.kind = "json" /\ res = Json(status, res.error)

\* the awaited calls of chatSetparSSO: each is answered by one action
AwaitedCalls ==
  UserStoreOps \cup
    {"SystemSettings.isMultiUserMode", "enableMultiUserMode:default",
     "enableMultiUserMode:auto", "TemporaryAuthToken.issue"}

\* C19: while an execution of chatSetparSSO is under way nothing has been sent
\* and it awaits a call that will be answered; once it has ended exactly one of next(), a
\* 302 redirect or a JSON error has happened, and that outcome is never
\* followed by another for the same request.
C19_ExactlyOneOutcome ==
  /\ [](\A r \in Procs :
          LET q == rq[r]
          IN  IsRequest(q)
                => /\ Running(q) => q.res = NoResponse
                   /\ Running(q) => q.pc \in AwaitedCalls
                   /\ Done(q) => Outcome(q.res))
  /\ [][\A r \in Procs :
          (IsRequest(rq[r]) /\ Done(rq[r]) /\ started' = started)
            => rq'[r] = rq[r]]_vars

C19_Witness ==
  LET q == rq["r1"]
  IN  /\ IsRequest(q) /\ Done(q)
      /\ Has(q, "TemporaryAuthToken.issue", "throw")
      /\ q.res = Json(500, "SSO authentication failed.")
      /\ Has(q, "User.create", "true")

StoresUntouched(q) ==
  /\ users = q.users0
  /\ settings = q.settings0
  /\ Len(tokens) = q.tokens0

\* C20 as claimed: a request answered 401 leaves the user store and the
\* settings store as they were before the request.
C20_UnauthorizedLeavesStores ==
  LET q == rq["r1"]
  IN  (IsRequest(q) /\ Done(q) /\ q.res.status = 401)
        => users = q.users0 /\ settings = q.settings0

\* C20: a request answered 401 makes no user-store call and leaves the user
\* store as it was; when the 401 is for a rejected token or an incomplete
\* payload the request has called nothing but JWT.verify and the settings are
\* as they were; when it is for an unresolvable identity the bootstrap has
\* already run and answered true, and the settings differ from before exactly
\* when one of its enable calls succeeded.
C20_UnauthorizedFrame ==
  LET q == rq["r1"]
      p == q.ssoToken.payload
      early == q.ssoToken.verify # "ok" \/ p.userId = << >> \/ p.email = << >>
      enabled ==
        \/ Has(q, "enableMultiUserMode:default", "true")
        \/ Has(q, "enableMultiUserMode:auto", "true")
  IN  /\ (IsRequest(q) /\ Made(q, "JWT.verify") /\ early)
           => /\ Done(q) /\ q.res.kind = "json"
              /\ q.log = << <<"JWT.verify", q.ssoToken.verify>> >>
              /\ StoresUntouched(q)
      /\ (IsRequest(q) /\ Done(q) /\ q.res.status = 401)
           => /\ users = q.users0 /\ Len(tokens) = q.tokens0
              /\ \A op \in UserStoreOps \cup {"TemporaryAuthToken.issue"} : ~Called(q, op)
              /\ early \/ UnresolvableIdentity(q)
              /\ early => settings = q.settings0
              /\ ~early
                   => /\ settings.multi_user_mode
                      /\ enabled <=> ~q.settings0.multi_user_mode
                      /\ enabled <=> settings # q.settings0

C20_Witness ==
  LET q == rq["r1"]
  IN  /\ IsRequest(q) /\ Done(q) /\ q.res.status = 401
      /\ q.log # << >> /\ UnresolvableIdentity(q)
      /\ ~q.settings0.multi_user_mode
      /\ settings.multi_user_mode
      /\ users = q.users0

====
